---- MODULE Spec2Model ----
(***************************************************************************)
(* The LumiFi contract (contracts/hello_world/src/lib.rs): a token         *)
(* registry, an ICO with a contribution ledger, a withdrawal path and      *)
(* constant-product liquidity pools, all kept in one instance storage.     *)
(* Every entry point is one atomic action: a call that traps (a failed     *)
(* require_auth, a panic of the arithmetic, of unwrap or of the token      *)
(* client) is rolled back by the host and leaves the storage as it was.    *)
(***************************************************************************)
EXTENDS Integers, Sequences, FiniteSets, TLC

VARIABLES
    tokens,           \* DataKey::Token(owner) -> Token
    icos,             \* DataKey::ICO(id) -> (token, target_amount, deadline)
    users,            \* DataKey::User(account) -> contribution
    pools,            \* DataKey::LiquidityPool(symbol) -> Map of reserves
    bal,              \* balances held in the token contracts, per asset
    now,              \* env.ledger().timestamp()
    overflow_checks,  \* the build profile: TRUE when overflow-checks is set
    calls,            \* number of calls made so far
    last              \* the call of the last step and its outcome

vars == <<tokens, icos, users, pools, bal, now, overflow_checks, calls, last>>

(***************************************************************************)
(* Bounds of the model.                                                    *)
(***************************************************************************)
\* i128 is modelled as a signed integer of Width bits
Width == 18
\* number of calls of one run of the token registry
MaxTokenCalls == 3
\* number of calls of one run of the liquidity pools
MaxPoolCalls == 3
\* number of calls of one run of the ICO and the withdrawal path
MaxIcoCalls == 4
\* number of calls of one run of the whole contract
MaxCalls == 2
\* last ledger timestamp of a run
MaxTime == 1

(***************************************************************************)
(* Values.                                                                 *)
(***************************************************************************)
Address == {"a1", "a2"}
\* env.current_contract_address()
Self == "self"
Holders == Address \cup {Self}
Symbols == {"p1", "p2"}
\* BytesN<32>: ZeroId is [0; 32], OtherId any other identifier
ZeroId == 0
OtherId == ZeroId + 1
IcoIds == {ZeroId, OtherId}

I128Max == 2^(Width - 1) - 1
I128Min == -(2^(Width - 1))
Modulus == 2^Width

InRange(v) == v >= I128Min /\ v <= I128Max

Abs(v) == IF v < 0 THEN -v ELSE v

\* two's complement value of v modulo 2^Width
Wrap(v) == ((v - I128Min) % Modulus) + I128Min

(***************************************************************************)
(* Arithmetic of i128.  The result of an operation is <<v>>, or <<>> when  *)
(* the operation panics.  chk is the overflow-checks setting of the build  *)
(* profile: an overflowing +, - or * panics when it is set and wraps when  *)
(* it is not; a division by zero and I128Min / -1 panic in every build.    *)
(***************************************************************************)
Panic == <<>>
Val(r) == r[1]
IsVal(r) == Len(r) = 1

AddI(a, b, chk) ==
    IF InRange(a + b) THEN <<a + b>>
    ELSE IF chk THEN Panic ELSE <<Wrap(a + b)>>

SubI(a, b, chk) ==
    IF InRange(a - b) THEN <<a - b>>
    ELSE IF chk THEN Panic ELSE <<Wrap(a - b)>>

\* a * b is outside i128, decided without forming the product
MulOverflows(a, b) ==
    /\ a # 0
    /\ b # 0
    /\ IF (a > 0) = (b > 0)
         THEN Abs(a) > I128Max \div Abs(b)
         ELSE Abs(a) > (-I128Min) \div Abs(b)

\* a * b modulo 2^Width for a, b in 0 .. 2^Width - 1, by doubling
RECURSIVE MulMod(_, _)
MulMod(a, b) ==
    IF b = 0 THEN 0
    ELSE (2 * MulMod(a, b \div 2) + (b % 2) * a) % Modulus

MulI(a, b, chk) ==
    IF ~MulOverflows(a, b) THEN <<a * b>>
    ELSE IF chk THEN Panic
    ELSE <<Wrap(MulMod(a % Modulus, b % Modulus))>>

\* division that rounds away from zero
RoundUpDiv(a, b) ==
    IF (a >= 0) = (b > 0) THEN (Abs(a) + Abs(b) - 1) \div Abs(b)
    ELSE -((Abs(a) + Abs(b) - 1) \div Abs(b))

\* Rust's / on integers: quotient truncated toward zero
TruncDiv(a, b) ==
    IF (a >= 0) = (b > 0) THEN Abs(a) \div Abs(b)
    ELSE -(Abs(a) \div Abs(b))

DivI(a, b) ==
    IF b = 0 THEN Panic
    ELSE IF a = I128Min /\ b = -1 THEN Panic
    ELSE <<TruncDiv(a, b)>>

(***************************************************************************)
(* Maps (soroban_sdk::Map and the instance storage): functions whose       *)
(* domain is the set of keys present.                                      *)
(***************************************************************************)
EmptyMap == <<>>

Has(m, k) == k \in DOMAIN m

Put(m, k, v) == [x \in (DOMAIN m) \cup {k} |-> IF x = k THEN v ELSE m[x]]

\* Map::get(k).unwrap_or(d)
GetOr(m, k, d) == IF Has(m, k) THEN m[k] ELSE d

RECURSIVE SumOver(_, _)
SumOver(m, ks) ==
    IF ks = {} THEN 0
    ELSE LET k == CHOOSE x \in ks : TRUE
         IN  m[k] + SumOver(m, ks \ {k})

\* sum(balances.values())
SumValues(m) == SumOver(m, DOMAIN m)

(***************************************************************************)
(* The record of the call a step made.                                     *)
(***************************************************************************)
NoEffects == <<>>

\* a write of the instance storage: env.storage().instance().set(key, ..)
SetEffect(space, key) ==
    [kind |-> "set", target |-> space, from |-> key, to |-> "", amount |-> 0]

\* a transfer made through token::Client
TransferEffect(token, from, to, amount) ==
    [kind |-> "transfer", target |-> token, from |-> from, to |-> to,
     amount |-> amount]

\* op and its arguments (a1, a2: addresses; sym: pool symbol; id: ICO
\* identifier; x, y: amounts; t: deadline), the addresses whose
\* authorization the invocation carries, the outcome (result; ret: integer
\* returned; out: address returned) and the effects the call committed
Call(op, a1, a2, sym, id, x, y, t, signers, result, ret, out, effects) ==
    [op |-> op, a1 |-> a1, a2 |-> a2, sym |-> sym, id |-> id, x |-> x,
     y |-> y, t |-> t, signers |-> signers, result |-> result, ret |-> ret,
     out |-> out, effects |-> effects]

NoCall == Call("none", "", "", "", ZeroId, 0, 0, 0, {}, "Ok", 0, "", NoEffects)

TypedErrors == {"Unauthorized", "InsufficientFunds", "ICOExpired",
                "AlreadyInitialized", "InvalidAmount", "TokenNotFound",
                "ICONotFound"}

\* an untyped trap of the host: a panic inside the contract
Abort == "Abort"

(***************************************************************************)
(* Inputs of the calls.                                                    *)
(***************************************************************************)
SupplyInputs == {-1, 0, 1, 2, I128Max}
MintInputs == {I128Min, -1, 0, 1, I128Max}
LiquidityInputs == {0, 1, 1000, I128Max}
SwapInputs == {I128Min, -3, -1, 0, 1, 2, 100, I128Max}
SignerSets == SUBSET Address
\* the authorizations tried on the pools: a1 signs, a2 does not
LiquiditySigners == {{"a1"}}
TargetInputs == {1000}
DeadlineInputs == 0 .. MaxTime
BuyInputs == {0, 1, I128Max}
WithdrawInputs == {-1, 0, 1, I128Max}
\* the authorizations tried on the ICO: a1 signs, a2 signs or does not
IcoSigners == {{"a1"}, Address}

(***************************************************************************)
(* State after deployment: empty storage.                                  *)
(***************************************************************************)
\* the whole supply of every asset, I128Max, is held by a1; a2 and the
\* contract hold nothing
InitialBalances ==
    [t \in Address |-> [h \in Holders |-> IF h = "a1" THEN I128Max ELSE 0]]

Init ==
    /\ tokens = EmptyMap
    /\ icos = EmptyMap
    /\ users = EmptyMap
    /\ pools = EmptyMap
    /\ bal = InitialBalances
    /\ now = 0
    /\ overflow_checks \in BOOLEAN
    /\ calls = 0
    /\ last = NoCall

\* a call that changes nothing but the record of the call
Fails(c) ==
    /\ last' = c
    /\ UNCHANGED <<tokens, icos, users, pools, bal>>

(***************************************************************************)
(* Token registry.                                                         *)
(***************************************************************************)
\* Token::new that leaves the balances empty
TokenNewWithoutBalance(owner, initial_supply) ==
    [total_supply |-> initial_supply,
     balances |-> EmptyMap,
     owner |-> owner]

\* Token::new
TokenNew(owner, initial_supply) ==
    [total_supply |-> initial_supply,
     balances |-> Put(EmptyMap, owner, initial_supply),
     owner |-> owner]

\* mint that forgets the total supply
MintedBalanceOnly(token, total_supply, new_balance) ==
    [token EXCEPT !.balances = Put(token.balances, token.owner, new_balance)]

\* mint that forgets the balance of the owner
MintedSupplyOnly(token, total_supply, new_balance) ==
    [token EXCEPT !.total_supply = total_supply]

\* create_token that refuses an owner whose record is stored
CreateTokenOnce(owner, initial_supply, signers) ==
    LET c(result, out, effects) ==
            Call("create_token", owner, "", "", ZeroId, initial_supply, 0, 0,
                 signers, result, 0, out, effects)
    IN  IF owner \notin signers THEN Fails(c("Unauthorized", "", NoEffects))
           ELSE IF initial_supply < 0
             THEN Fails(c("InvalidAmount", "", NoEffects))
           ELSE IF Has(tokens, owner)
             THEN Fails(c("AlreadyInitialized", "", NoEffects))
           ELSE /\ tokens' = Put(tokens, owner, TokenNew(owner, initial_supply))
                /\ last' = c("Ok", owner, <<SetEffect("Token", owner)>>)
                /\ UNCHANGED <<icos, users, pools, bal>>

\* create_token that stores the record before it validates the supply
CreateTokenStoresFirst(owner, initial_supply, signers) ==
    LET c(result, out, effects) ==
            Call("create_token", owner, "", "", ZeroId, initial_supply, 0, 0,
                 signers, result, 0, out, effects)
    IN  IF owner \notin signers THEN Fails(c("Unauthorized", "", NoEffects))
        ELSE /\ tokens' = Put(tokens, owner, TokenNew(owner, initial_supply))
             /\ last' = IF initial_supply < 0
                           THEN c("InvalidAmount", "", NoEffects)
                           ELSE c("Ok", owner, <<SetEffect("Token", owner)>>)
             /\ UNCHANGED <<icos, users, pools, bal>>

\* token.total_supply += amount; token.balances.set(owner, balance + amount)
Minted(token, total_supply, new_balance) ==
    [token EXCEPT !.total_supply = total_supply,
                  !.balances = Put(token.balances, token.owner, new_balance)]

CreateToken(owner, initial_supply, signers) ==
    LET c(result, out, effects) ==
            Call("create_token", owner, "", "", ZeroId, initial_supply, 0, 0,
                 signers, result, 0, out, effects)
    IN  IF owner \notin signers THEN Fails(c("Unauthorized", "", NoEffects))
           ELSE IF initial_supply < 0
             THEN Fails(c("InvalidAmount", "", NoEffects))
           ELSE /\ tokens' = Put(tokens, owner, TokenNew(owner, initial_supply))
                /\ last' = c("Ok", owner, <<SetEffect("Token", owner)>>)
                /\ UNCHANGED <<icos, users, pools, bal>>

Mint(token_address, amount, signers) ==
    LET c(result, effects) ==
            Call("mint", token_address, "", "", ZeroId, amount, 0, 0,
                 signers, result, 0, "", effects)
    IN  IF ~Has(tokens, token_address)
             THEN Fails(c("TokenNotFound", NoEffects))
           ELSE LET token == tokens[token_address]
                    total_supply == AddI(token.total_supply, amount,
                                         overflow_checks)
                    owner_balance == GetOr(token.balances, token.owner, 0)
                    new_balance == AddI(owner_balance, amount, overflow_checks)
                IN  IF token.owner \notin signers
                      THEN Fails(c("Unauthorized", NoEffects))
                    ELSE IF ~IsVal(total_supply) \/ ~IsVal(new_balance)
                      THEN Fails(c(Abort, NoEffects))
                    ELSE /\ tokens' = Put(tokens, token_address,
                                Minted(token, Val(total_supply),
                                       Val(new_balance)))
                         /\ last' = c("Ok", <<SetEffect("Token", token_address)>>)
                         /\ UNCHANGED <<icos, users, pools, bal>>


(***************************************************************************)
(* Liquidity pools.  The record under LiquidityPool(symbol) is itself a    *)
(* Map<Symbol, (i128, i128)> that holds the reserves under the same symbol.*)
(***************************************************************************)
\* a deposit that replaces the reserves by the amounts
DepositedReplacing(reserves, amount_token, amount_xlm, chk) ==
    <<<<amount_token, amount_xlm>>>>

\* (token_reserve + amount_token, xlm_reserve + amount_xlm)
Deposited(reserves, amount_token, amount_xlm, chk) ==
    LET token_reserve == AddI(reserves[1], amount_token, chk)
        xlm_reserve == AddI(reserves[2], amount_xlm, chk)
    IN  IF ~IsVal(token_reserve) \/ ~IsVal(xlm_reserve) THEN Panic
        ELSE <<<<Val(token_reserve), Val(xlm_reserve)>>>>

\* add_liquidity as a function of the stored pools p: the result of the call
\* and the pools it leaves
AddLiquidityOutcome(p, pool_symbol, provider, amount_token, amount_xlm, signers, chk) ==
    LET pool == GetOr(p, pool_symbol, EmptyMap)
        reserves == GetOr(pool, pool_symbol, <<0, 0>>)
        deposited == Deposited(reserves, amount_token, amount_xlm, chk)
    IN  IF provider \notin signers
             THEN [result |-> "Unauthorized", pools |-> p]
           ELSE IF amount_token <= 0 \/ amount_xlm <= 0
             THEN [result |-> "InvalidAmount", pools |-> p]
           ELSE IF ~IsVal(deposited)
             THEN [result |-> Abort, pools |-> p]
           ELSE [result |-> "Ok",
                 pools |-> Put(p, pool_symbol,
                               Put(pool, pool_symbol, Val(deposited)))]

AddLiquidity(pool_symbol, provider, amount_token, amount_xlm, signers) ==
    LET outcome == AddLiquidityOutcome(pools, pool_symbol, provider,
                                       amount_token, amount_xlm, signers,
                                       overflow_checks)
        effects == IF outcome.result = "Ok"
                     THEN <<SetEffect("LiquidityPool", pool_symbol)>>
                     ELSE NoEffects
    IN  /\ pools' = outcome.pools
        /\ last' = Call("add_liquidity", provider, "", pool_symbol, ZeroId,
                        amount_token, amount_xlm, 0, signers, outcome.result,
                        0, "", effects)
        /\ UNCHANGED <<tokens, icos, users, bal>>

\* (amount_xlm * token_reserve) / (xlm_reserve + amount_xlm)
TokenOut(token_reserve, xlm_reserve, amount_xlm, chk) ==
    LET num == MulI(amount_xlm, token_reserve, chk)
        den == AddI(xlm_reserve, amount_xlm, chk)
    IN  IF ~IsVal(num) \/ ~IsVal(den) THEN Panic
        ELSE DivI(Val(num), Val(den))

Swap(pool_symbol, amount_xlm) ==
    LET c(result, ret, effects) ==
            Call("swap", "", "", pool_symbol, ZeroId, amount_xlm, 0, 0, {},
                 result, ret, "", effects)
    IN  IF ~Has(pools, pool_symbol)
             THEN Fails(c("TokenNotFound", 0, NoEffects))
           ELSE IF ~Has(pools[pool_symbol], pool_symbol)
             THEN Fails(c(Abort, 0, NoEffects))
           ELSE LET pool == pools[pool_symbol]
                    token_reserve == pool[pool_symbol][1]
                    xlm_reserve == pool[pool_symbol][2]
                    token_out == TokenOut(token_reserve, xlm_reserve,
                                          amount_xlm, overflow_checks)
                IN  IF ~IsVal(token_out) THEN Fails(c(Abort, 0, NoEffects))
                    ELSE IF Val(token_out) > token_reserve
                      THEN Fails(c("InsufficientFunds", 0, NoEffects))
                    ELSE LET new_token == SubI(token_reserve, Val(token_out),
                                               overflow_checks)
                             new_xlm == AddI(xlm_reserve, amount_xlm,
                                             overflow_checks)
                         IN  IF ~IsVal(new_token) \/ ~IsVal(new_xlm)
                               THEN Fails(c(Abort, 0, NoEffects))
                             ELSE /\ pools' = Put(pools, pool_symbol,
                                        Put(pool, pool_symbol,
                                            <<Val(new_token), Val(new_xlm)>>))
                                  /\ last' = c("Ok", Val(token_out),
                                        <<SetEffect("LiquidityPool", pool_symbol)>>)
                                  /\ UNCHANGED <<tokens, icos, users, bal>>


(***************************************************************************)
(* The asset-transfer collaborator (token::Client): the balances bal of    *)
(* the token contracts the ICO and the withdrawal path transfer in.  A     *)
(* transfer fails loudly, which traps the calling entry point, when the    *)
(* amount is negative or the source lacks funds.  The supply of an asset   *)
(* is a value of i128, so no balance leaves i128.                          *)
(***************************************************************************)
Transfer(b, token, from, to, amount) ==
    IF amount < 0 \/ b[token][from] < amount THEN Panic
    ELSE IF from = to THEN <<b>>
    ELSE <<[b EXCEPT ![token][from] = @ - amount, ![token][to] = @ + amount]>>

(***************************************************************************)
(* ICO and contribution ledger.                                            *)
(***************************************************************************)
\* a buy at the deadline is already late
ExpiredAtDeadline(timestamp, deadline) == timestamp >= deadline

\* env.ledger().timestamp() > deadline
Expired(timestamp, deadline) == timestamp > deadline

\* start_ico that derives the identifier from the token of the sale
StartIcoPerToken(token, target_amount, deadline) ==
    LET ico_id == IF token = "a1" THEN ZeroId ELSE OtherId
    IN  /\ icos' = Put(icos, ico_id, <<token, target_amount, deadline>>)
        /\ last' = Call("start_ico", token, "", "", ZeroId, target_amount, 0,
                        deadline, {}, "Ok", ico_id, "",
                        <<SetEffect("ICO", "")>>)
        /\ UNCHANGED <<tokens, users, pools, bal>>

StartIco(token, target_amount, deadline) ==
    LET ico_id == ZeroId
    IN  /\ icos' = Put(icos, ico_id, <<token, target_amount, deadline>>)
        /\ last' = Call("start_ico", token, "", "", ZeroId, target_amount, 0,
                        deadline, {}, "Ok", ico_id, "",
                        <<SetEffect("ICO", "")>>)
        /\ UNCHANGED <<tokens, users, pools, bal>>

BuyToken(ico_id, buyer, amount, signers) ==
    LET c(result, effects) ==
            Call("buy_token", buyer, "", "", ico_id, amount, 0, 0, signers,
                 result, 0, "", effects)
    IN  IF buyer \notin signers THEN Fails(c("Unauthorized", NoEffects))
           ELSE IF amount <= 0 THEN Fails(c("InvalidAmount", NoEffects))
           ELSE IF ~Has(icos, ico_id) THEN Fails(c("ICONotFound", NoEffects))
           ELSE LET token == icos[ico_id][1]
                    deadline == icos[ico_id][3]
                    transferred == Transfer(bal, token, buyer, Self, amount)
                    buyer_balance == AddI(GetOr(users, buyer, 0), amount,
                                          overflow_checks)
                IN  IF Expired(now, deadline)
                      THEN Fails(c("ICOExpired", NoEffects))
                    ELSE IF ~IsVal(transferred) \/ ~IsVal(buyer_balance)
                      THEN Fails(c(Abort, NoEffects))
                    ELSE /\ bal' = Val(transferred)
                         /\ users' = Put(users, buyer, Val(buyer_balance))
                         /\ last' = c("Ok",
                                <<TransferEffect(token, buyer, Self, amount),
                                  SetEffect("User", buyer)>>)
                         /\ UNCHANGED <<tokens, icos, pools>>

(***************************************************************************)
(* Withdrawal path.                                                        *)
(***************************************************************************)
\* the whole held balance cannot be withdrawn
ExceedsOrEmpties(amount, contract_balance) == amount >= contract_balance

\* amount > contract_balance
Exceeds(amount, contract_balance) == amount > contract_balance

Withdraw(token, recipient, amount, signers) ==
    LET c(result, effects) ==
            Call("withdraw", token, recipient, "", ZeroId, amount, 0, 0,
                 signers, result, 0, "", effects)
        contract_balance == bal[token][Self]
        transferred == Transfer(bal, token, Self, recipient, amount)
    IN  IF recipient \notin signers THEN Fails(c("Unauthorized", NoEffects))
           ELSE IF Exceeds(amount, contract_balance)
             THEN Fails(c("InsufficientFunds", NoEffects))
           ELSE IF ~IsVal(transferred) THEN Fails(c(Abort, NoEffects))
           ELSE /\ bal' = Val(transferred)
                /\ last' = c("Ok",
                             <<TransferEffect(token, Self, recipient, amount)>>)
                /\ UNCHANGED <<tokens, icos, users, pools>>

(***************************************************************************)
(* The ledger closes: env.ledger().timestamp() advances.                   *)
(***************************************************************************)
Tick ==
    /\ now < MaxTime
    /\ now' = now + 1
    /\ last' = Call("tick", "", "", "", ZeroId, 0, 0, now + 1, {}, "Ok", 0, "",
                    NoEffects)
    /\ UNCHANGED <<tokens, icos, users, pools, bal, overflow_checks, calls>>

(***************************************************************************)
(* The entry points with their inputs.                                     *)
(***************************************************************************)
CreateTokenInputs ==
    \E owner \in Address, initial_supply \in SupplyInputs,
       signers \in SignerSets :
        CreateToken(owner, initial_supply, signers)

MintInputsCall ==
    \E token_address \in Address, amount \in MintInputs,
       signers \in SignerSets :
        Mint(token_address, amount, signers)

StartIcoInputs ==
    \E token \in Address, target_amount \in TargetInputs,
       deadline \in DeadlineInputs :
        StartIco(token, target_amount, deadline)

BuyTokenInputs ==
    \E ico_id \in IcoIds, buyer \in Address, amount \in BuyInputs,
       signers \in IcoSigners :
        BuyToken(ico_id, buyer, amount, signers)

WithdrawInputsCall ==
    \E token \in Address, recipient \in Address, amount \in WithdrawInputs,
       signers \in IcoSigners :
        Withdraw(token, recipient, amount, signers)

AddLiquidityInputs ==
    \E pool_symbol \in Symbols, provider \in Address,
       amount_token \in LiquidityInputs, amount_xlm \in LiquidityInputs,
       signers \in LiquiditySigners :
        AddLiquidity(pool_symbol, provider, amount_token, amount_xlm, signers)

SwapInputsCall ==
    \E pool_symbol \in Symbols, amount_xlm \in SwapInputs :
        Swap(pool_symbol, amount_xlm)

\* one more call of a run of at most max calls
Counted(max) ==
    /\ calls < max
    /\ calls' = calls + 1
    /\ UNCHANGED <<now, overflow_checks>>

(***************************************************************************)
(* Runs of the token registry alone.                                       *)
(***************************************************************************)
TokenCreate == Counted(MaxTokenCalls) /\ CreateTokenInputs
TokenMint == Counted(MaxTokenCalls) /\ MintInputsCall

NextToken == TokenCreate \/ TokenMint

SpecToken == Init /\ [][NextToken]_vars

(***************************************************************************)
(* Runs of the liquidity pools alone.                                      *)
(***************************************************************************)
PoolSwap == Counted(MaxPoolCalls) /\ SwapInputsCall
PoolAddLiquidity == Counted(MaxPoolCalls) /\ AddLiquidityInputs

NextPool == PoolSwap \/ PoolAddLiquidity

SpecPool == Init /\ [][NextPool]_vars

(***************************************************************************)
(* Runs of the liquidity pools in which every swap has a positive input.   *)
(***************************************************************************)
PositiveSwapInputs == {x \in SwapInputs : x > 0}

PoolPositiveSwap ==
    /\ Counted(MaxPoolCalls)
    /\ \E pool_symbol \in Symbols, amount_xlm \in PositiveSwapInputs :
           Swap(pool_symbol, amount_xlm)

NextPositivePool == PoolPositiveSwap \/ PoolAddLiquidity

SpecPositivePool == Init /\ [][NextPositivePool]_vars

(***************************************************************************)
(* Runs of the ICO and the withdrawal path alone.                          *)
(***************************************************************************)
IcoStart == Counted(MaxIcoCalls) /\ StartIcoInputs
IcoBuy == Counted(MaxIcoCalls) /\ BuyTokenInputs
IcoWithdraw == Counted(MaxIcoCalls) /\ WithdrawInputsCall

NextIco == IcoStart \/ IcoBuy \/ IcoWithdraw \/ Tick

SpecIco == Init /\ [][NextIco]_vars

(***************************************************************************)
(* Runs of the whole contract.                                             *)
(***************************************************************************)
CallCreateToken == Counted(MaxCalls) /\ CreateTokenInputs
CallMint == Counted(MaxCalls) /\ MintInputsCall
CallStartIco == Counted(MaxCalls) /\ StartIcoInputs
CallBuyToken == Counted(MaxCalls) /\ BuyTokenInputs
CallWithdraw == Counted(MaxCalls) /\ WithdrawInputsCall
CallAddLiquidity == Counted(MaxCalls) /\ AddLiquidityInputs
CallSwap == Counted(MaxCalls) /\ SwapInputsCall

Next ==
    \/ CallCreateToken
    \/ CallMint
    \/ CallStartIco
    \/ CallBuyToken
    \/ CallWithdraw
    \/ CallAddLiquidity
    \/ CallSwap
    \/ Tick

Spec == Init /\ [][Next]_vars

(***************************************************************************)
(* Products of two i128 values, compared without forming them: a * b is    *)
(* written <<h, l>> with a * b = h * Base + l and h, l of one sign.        *)
(***************************************************************************)
Base == 2^10

Prod(a, b) ==
    LET lo == (Abs(a) % Base) * Abs(b)
        hi == (Abs(a) \div Base) * Abs(b) + lo \div Base
        sign == IF (a < 0) # (b < 0) THEN -1 ELSE 1
    IN  <<sign * hi, sign * (lo % Base)>>

ProdLeq(p, q) == p[1] < q[1] \/ (p[1] = q[1] /\ p[2] <= q[2])

ProdLess(p, q) == ~ProdLeq(q, p)

\* q = floor((n1 * n2) / d)
IsFloorOf(q, n1, n2, d) ==
    /\ d # 0
    /\ IF d > 0
         THEN ProdLeq(Prod(q, d), Prod(n1, n2))
              /\ ProdLess(Prod(n1, n2), Prod(q + 1, d))
         ELSE ProdLeq(Prod(n1, n2), Prod(q, d))
              /\ ProdLess(Prod(q + 1, d), Prod(n1, n2))

\* the pool s holds reserves
PoolExists(s) == Has(pools, s) /\ Has(pools[s], s)

\* the step is a call of op
Called(op) == last'.op = op

\* the step is a call of swap on the existing pool s
Swapped(s) == PoolExists(s) /\ Called("swap") /\ last'.sym = s

(***************************************************************************)
(* Token registry: supply and balances.                                    *)
(***************************************************************************)
\* C1: in every state reached by create_token and mint calls, every stored
\* Token has total_supply equal to the sum of the values of its balances.
SupplyEqualsBalances ==
    \A k \in DOMAIN tokens :
        tokens[k].total_supply = SumValues(tokens[k].balances)

\* a mint of a non-zero amount went through and its token is stored
SupplyEqualsBalancesWitness ==
    /\ last.op = "mint"
    /\ last.result = "Ok"
    /\ last.x # 0
    /\ Has(tokens, last.a1)
    /\ tokens[last.a1].total_supply # 0

(***************************************************************************)
(* Liquidity pools.                                                        *)
(***************************************************************************)
\* C2: in every state reached by add_liquidity and swap calls with any
\* arguments, both reserves of every stored pool are non-negative.
ReservesNonNegative ==
    \A s \in DOMAIN pools : \A k \in DOMAIN pools[s] :
        pools[s][k][1] >= 0 /\ pools[s][k][2] >= 0

\* C3: on a pool with reserves (T, R), swap with a positive input x returns
\* token_out = floor(x * T / (R + x)), with 0 <= token_out <= T, and stores
\* the reserves (T - token_out, R + x).
SwapReturnsFloor ==
    [][\A s \in Symbols :
         (Swapped(s) /\ last'.x > 0) =>
             LET T == pools[s][s][1]
                 R == pools[s][s][2]
                 x == last'.x
             IN  /\ last'.result = "Ok"
                 /\ IsFloorOf(last'.ret, x, T, R + x)
                 /\ 0 <= last'.ret
                 /\ last'.ret <= T
                 /\ pools'[s][s] = <<T - last'.ret, R + x>>]_vars

\* C4: every successful swap leaves the product of the two reserves of the
\* pool greater than or equal to the product before the swap.
SwapNeverLowersProduct ==
    [][\A s \in Symbols :
         (Swapped(s) /\ last'.result = "Ok") =>
             ProdLeq(Prod(pools[s][s][1], pools[s][s][2]),
                     Prod(pools'[s][s][1], pools'[s][s][2]))]_vars

\* C5, as claimed: no swap raises the product of the reserves above its
\* value before the swap, and no swap lowers the reference reserve.
SwapNeverRaisesProduct ==
    [][\A s \in Symbols :
         (Swapped(s) /\ last'.result = "Ok") =>
             /\ ProdLeq(Prod(pools'[s][s][1], pools'[s][s][2]),
                        Prod(pools[s][s][1], pools[s][s][2]))
             /\ pools'[s][s][2] >= pools[s][s][2]]_vars

\* C5, amended: a swap with a positive input on a pool with positive
\* reserves, none of whose arithmetic leaves i128, never lowers the product
\* of the reserves (rounding can raise it) and never lowers the reference
\* reserve.
PositiveSwapKeepsProduct ==
    [][\A s \in Symbols :
         (/\ Swapped(s)
          /\ last'.result = "Ok"
          /\ last'.x > 0
          /\ pools[s][s][1] > 0
          /\ pools[s][s][2] > 0
          /\ ~MulOverflows(last'.x, pools[s][s][1])
          /\ InRange(pools[s][s][2] + last'.x)) =>
             /\ ProdLeq(Prod(pools[s][s][1], pools[s][s][2]),
                        Prod(pools'[s][s][1], pools'[s][s][2]))
             /\ pools'[s][s][2] >= pools[s][s][2]]_vars

\* the pool at (1000, 1000) was swapped with 100: it stands at (910, 1100)
\* and its product has risen from 1000000 to 1001000
PositiveSwapKeepsProductWitness ==
    /\ last.op = "swap"
    /\ last.result = "Ok"
    /\ last.x = 100
    /\ last.ret = 90
    /\ PoolExists(last.sym)
    /\ pools[last.sym][last.sym] = <<910, 1100>>

(***************************************************************************)
(* Failing calls.                                                          *)
(***************************************************************************)
\* C6: a call that ends in one of the typed errors (Unauthorized included)
\* leaves the tokens, the ICO record, the contribution entries, the pools
\* and the held asset balances as they were before the call.
ErrorsChangeNothing ==
    [][last'.result \in TypedErrors =>
         /\ tokens' = tokens
         /\ icos' = icos
         /\ users' = users
         /\ pools' = pools
         /\ bal' = bal]_vars

\* a call failed with a typed error on a storage that holds a record
ErrorsChangeNothingWitness ==
    /\ last.result \in TypedErrors
    /\ last.op \in {"create_token", "mint", "buy_token", "withdraw",
                    "add_liquidity", "swap"}
    /\ (tokens # EmptyMap \/ icos # EmptyMap \/ pools # EmptyMap)

(***************************************************************************)
(* ICO.                                                                    *)
(***************************************************************************)
\* the step is a call of buy_token on a stored ICO
Bought == Called("buy_token") /\ Has(icos, last'.id)

\* C7, as claimed: buy_token at a ledger time after the stored deadline
\* always fails with ICOExpired, transfers nothing and leaves the
\* contribution entries unchanged; at a ledger time equal to the deadline it
\* is not rejected as expired.
LateBuyIsExpired ==
    [][Bought =>
         /\ now > icos[last'.id][3] =>
               /\ last'.result = "ICOExpired"
               /\ bal' = bal
               /\ users' = users
         /\ now = icos[last'.id][3] => last'.result # "ICOExpired"]_vars

\* C7, amended: buy_token at a ledger time after the stored deadline always
\* fails, with ICOExpired when the buyer authorizes the call and the amount
\* is positive (Unauthorized and InvalidAmount are raised first), transfers
\* nothing and leaves the contribution entries unchanged; at a ledger time
\* equal to the deadline it is not rejected as expired.
LateBuyFails ==
    [][Bought =>
         /\ now > icos[last'.id][3] =>
               /\ last'.result \in {"Unauthorized", "InvalidAmount",
                                     "ICOExpired"}
               /\ (last'.a1 \in last'.signers /\ last'.x > 0)
                      => last'.result = "ICOExpired"
               /\ bal' = bal
               /\ users' = users
         /\ now = icos[last'.id][3] => last'.result # "ICOExpired"]_vars

\* an authorized buy of a positive amount came after the deadline
LateBuyFailsWitness ==
    /\ last.op = "buy_token"
    /\ last.result = "ICOExpired"
    /\ Has(icos, last.id)
    /\ now > icos[last.id][3]

\* C8: a successful buy_token makes exactly one transfer, of amount from the
\* buyer to the contract, and then adds exactly amount to the contribution
\* entry of the buyer; a buy whose transfer fails leaves the entry as it was.
BuyTransfersThenRecords ==
    [][Bought =>
         LET buyer == last'.a1
             amount == last'.x
             token == icos[last'.id][1]
         IN  /\ last'.result = "Ok" =>
                   /\ last'.effects =
                          <<TransferEffect(token, buyer, Self, amount),
                            SetEffect("User", buyer)>>
                   /\ bal' = [bal EXCEPT ![token][buyer] = @ - amount,
                                         ![token][Self] = @ + amount]
                   /\ Has(users', buyer)
                   /\ users'[buyer] = GetOr(users, buyer, 0) + amount
             /\ ~IsVal(Transfer(bal, token, buyer, Self, amount)) =>
                   /\ last'.result # "Ok"
                   /\ users' = users]_vars

(***************************************************************************)
(* Withdrawal path.                                                        *)
(***************************************************************************)
\* C9, as claimed: withdraw of more than the held balance of the token fails
\* with InsufficientFunds and transfers nothing; withdraw of exactly the
\* held balance succeeds and leaves the held balance at zero.
WithdrawUpToHeld ==
    [][Called("withdraw") =>
         LET held == bal[last'.a1][Self]
         IN  /\ last'.x > held =>
                   last'.result = "InsufficientFunds" /\ bal' = bal
             /\ last'.x = held =>
                   last'.result = "Ok" /\ bal'[last'.a1][Self] = 0]_vars

\* C9, amended: withdraw authorized by the recipient fails with
\* InsufficientFunds and transfers nothing when the amount is greater than
\* the held balance of the token, and succeeds and leaves the held balance
\* at zero when the amount is exactly the held balance.
AuthorizedWithdrawUpToHeld ==
    [][(Called("withdraw") /\ last'.a2 \in last'.signers) =>
         LET held == bal[last'.a1][Self]
         IN  /\ last'.x > held =>
                   last'.result = "InsufficientFunds" /\ bal' = bal
             /\ last'.x = held =>
                   /\ last'.result = "Ok"
                   /\ bal'[last'.a1][Self] = 0
                   /\ bal'[last'.a1][last'.a2] = bal[last'.a1][last'.a2] + held
             ]_vars

\* the whole held balance, not zero, has been withdrawn
AuthorizedWithdrawUpToHeldWitness ==
    /\ last.op = "withdraw"
    /\ last.result = "Ok"
    /\ last.x > 0
    /\ bal[last.a1][Self] = 0

(***************************************************************************)
(* Mint.                                                                   *)
(***************************************************************************)
\* the tokens after the record under k gained a in supply and owner balance
TokensMinted(k, a) ==
    [tokens EXCEPT ![k] =
        [total_supply |-> tokens[k].total_supply + a,
         balances |-> [tokens[k].balances EXCEPT
                          ![tokens[k].owner] = @ + a],
         owner |-> tokens[k].owner]]

\* C10, as claimed: mint fails with TokenNotFound when no Token is stored
\* for token_address and with Unauthorized when the stored owner does not
\* authorize; when the owner authorizes, for any amount a, it changes
\* total_supply and the balance of the owner by a and nothing else.
MintAddsAmount ==
    [][Called("mint") =>
         LET k == last'.a1
         IN  IF ~Has(tokens, k)
               THEN last'.result = "TokenNotFound" /\ tokens' = tokens
             ELSE IF tokens[k].owner \notin last'.signers
               THEN last'.result = "Unauthorized" /\ tokens' = tokens
             ELSE /\ last'.result = "Ok"
                  /\ tokens' = TokensMinted(k, last'.x)
                  /\ UNCHANGED <<icos, users, pools, bal>>]_vars

\* C10, amended: as claimed, for any amount a for which total_supply + a and
\* the balance of the owner + a are values of i128.
MintAddsAmountInRange ==
    [][Called("mint") =>
         LET k == last'.a1
         IN  IF ~Has(tokens, k)
               THEN last'.result = "TokenNotFound" /\ tokens' = tokens
             ELSE IF tokens[k].owner \notin last'.signers
               THEN last'.result = "Unauthorized" /\ tokens' = tokens
             ELSE (/\ InRange(tokens[k].total_supply + last'.x)
                   /\ InRange(tokens[k].balances[tokens[k].owner] + last'.x))
                    => /\ last'.result = "Ok"
                       /\ tokens' = TokensMinted(k, last'.x)
                       /\ UNCHANGED <<icos, users, pools, bal>>]_vars

\* the owner has minted a negative amount: supply and balance went down
MintAddsAmountInRangeWitness ==
    /\ last.op = "mint"
    /\ last.result = "Ok"
    /\ last.x < 0
    /\ Has(tokens, last.a1)
    /\ tokens[last.a1].total_supply < 0

(***************************************************************************)
(* create_token.                                                           *)
(***************************************************************************)
\* C11: create_token(owner, s) authorized by owner stores, for every s >= 0,
\* under Token(owner) a record with total_supply s, the balance of the owner
\* s and the owner field owner, and returns owner; for every s < 0 it fails
\* with InvalidAmount and leaves the storage untouched.
CreateTokenStoresRecord ==
    [][(Called("create_token") /\ last'.a1 \in last'.signers) =>
         LET owner == last'.a1
             s == last'.x
         IN  IF s >= 0
               THEN /\ last'.result = "Ok"
                    /\ last'.out = owner
                    /\ Has(tokens', owner)
                    /\ tokens'[owner].total_supply = s
                    /\ DOMAIN tokens'[owner].balances = {owner}
                    /\ tokens'[owner].balances[owner] = s
                    /\ tokens'[owner].owner = owner
                    /\ \A k \in DOMAIN tokens' :
                           k # owner => Has(tokens, k) /\ tokens'[k] = tokens[k]
                    /\ \A k \in DOMAIN tokens : Has(tokens', k)
                    /\ UNCHANGED <<icos, users, pools, bal>>
               ELSE /\ last'.result = "InvalidAmount"
                    /\ UNCHANGED <<tokens, icos, users, pools, bal>>]_vars

\* a token of a positive supply has been created beside another record
CreateTokenStoresRecordWitness ==
    /\ last.op = "create_token"
    /\ last.result = "Ok"
    /\ last.x > 0
    /\ Has(tokens, last.a1)
    /\ tokens[last.a1].total_supply = last.x
    /\ Cardinality(DOMAIN tokens) = 2

(***************************************************************************)
(* add_liquidity as a function of the pools.                               *)
(***************************************************************************)
\* the deposits (amount_token, amount_xlm) compared: small ones and ones
\* next to the end of i128
DepositInputs ==
    {<<1, 1000>>, <<1000, 1>>, <<I128Max - 1, 1>>, <<1, I128Max - 1>>}

\* the pools after add_liquidity(s, a1, a, b) authorized by a1 on the pools p
AfterAdd(p, s, a, b) ==
    AddLiquidityOutcome(p, s, "a1", a, b, {"a1"}, overflow_checks).pools

\* the reserves of the pool s in the pools p, (0, 0) when absent
ReservesOf(p, s) == GetOr(GetOr(p, s, EmptyMap), s, <<0, 0>>)

\* from the pools of this state the deposits (a1, b1) then (a2, b2), the
\* single deposit (a1 + a2, b1 + b2) and (a2, b2) then (a1, b1) all leave
\* the same pools
SameDeposits(s, d1, d2) ==
    LET two == AfterAdd(AfterAdd(pools, s, d1[1], d1[2]), s, d2[1], d2[2])
        one == AfterAdd(pools, s, d1[1] + d2[1], d1[2] + d2[2])
        rev == AfterAdd(AfterAdd(pools, s, d2[1], d2[2]), s, d1[1], d1[2])
    IN  two = one /\ two = rev

\* C12, as claimed: from any pool state, an absent pool included, positive
\* deposits (a1, b1) then (a2, b2) leave the same reserves as the single
\* deposit (a1 + a2, b1 + b2) and as the two in the opposite order.
AddLiquidityIsAdditive ==
    \A s \in Symbols : \A d1, d2 \in DepositInputs :
        (InRange(d1[1] + d2[1]) /\ InRange(d1[2] + d2[2])) =>
            SameDeposits(s, d1, d2)

\* C12, amended: as claimed, for deposits that keep the sums
\* token_reserve + a1 + a2 and xlm_reserve + b1 + b2 within i128.
AddLiquidityIsAdditiveInRange ==
    \A s \in Symbols : \A d1, d2 \in DepositInputs :
        (/\ InRange(ReservesOf(pools, s)[1] + d1[1] + d2[1])
         /\ InRange(ReservesOf(pools, s)[2] + d1[2] + d2[2])) =>
            SameDeposits(s, d1, d2)

\* the deposits (1, 1000) and (1000, 1) have been made on one pool, in
\* either order
AddLiquidityIsAdditiveInRangeWitness ==
    /\ last.op = "add_liquidity"
    /\ last.result = "Ok"
    /\ last.x # last.y
    /\ PoolExists(last.sym)
    /\ pools[last.sym][last.sym] = <<1001, 1001>>

(***************************************************************************)
(* Outcomes of the calls.                                                  *)
(***************************************************************************)
\* C13: every call of every entry point, from every reachable state and with
\* any arguments, ends in a success value or in one of the seven typed
\* errors; no call ends in an untyped abort.
NoUntypedAbort == last.result \in {"Ok"} \cup TypedErrors

(***************************************************************************)
(* The ICO record.                                                         *)
(***************************************************************************)
\* C14: once an ICO record has been created by start_ico, its stored
\* (token, target_amount, deadline) are never changed or deleted by any
\* later call of any operation.
IcoRecordNeverChanges ==
    [][\A id \in DOMAIN icos :
         Has(icos', id) /\ icos'[id] = icos[id]]_vars

\* C15: start_ico returns the identifier of 32 zero bytes for every input
\* and needs no authorization, so after any sequence of start_ico calls
\* exactly one ICO record exists and it holds the (token, target_amount,
\* deadline) of the most recent call; a later buy_token is checked against
\* that latest deadline and token.
StartIcoCollides ==
    [][/\ Called("start_ico") =>
              /\ last'.signers = {}
              /\ last'.result = "Ok"
              /\ last'.ret = ZeroId
              /\ DOMAIN icos' = {ZeroId}
              /\ icos'[ZeroId] = <<last'.a1, last'.x, last'.t>>
       /\ ~Called("start_ico") => icos' = icos
       /\ (/\ Called("buy_token")
           /\ last'.id = ZeroId
           /\ Has(icos, ZeroId)
           /\ last'.a1 \in last'.signers
           /\ last'.x > 0) =>
              LET token == icos[ZeroId][1]
                  deadline == icos[ZeroId][3]
              IN  /\ (last'.result = "ICOExpired") <=> (now > deadline)
                  /\ last'.result = "Ok" =>
                        /\ last'.effects[1] =
                               TransferEffect(token, last'.a1, Self, last'.x)
                        /\ bal'[token][Self] = bal[token][Self] + last'.x
                        /\ \A t \in Address \ {token} : bal'[t] = bal[t]
       ]_vars

\* a sale of a1 took a contribution, a sale of a2 replaced it and a buy went
\* into the sale of a2
StartIcoCollidesWitness ==
    /\ last.op = "buy_token"
    /\ last.result = "Ok"
    /\ DOMAIN icos = {ZeroId}
    /\ icos[ZeroId][1] = "a2"
    /\ last.effects[1].target = "a2"
    /\ bal["a1"][Self] > 0
    /\ bal["a2"][Self] > 0

(***************************************************************************)
(* The contribution entries.                                               *)
(***************************************************************************)
\* C16: the contribution entry User(account) is the sum of the amounts of
\* the successful buy_token calls of the account, across every sale and
\* every sale token: absent at first, raised by exactly the amount by each
\* successful buy of the account, and left as it is by every other call.
ContributionsAreSums ==
    [][IF Called("buy_token") /\ last'.result = "Ok"
         THEN /\ DOMAIN users' = DOMAIN users \cup {last'.a1}
              /\ users'[last'.a1] = GetOr(users, last'.a1, 0) + last'.x
              /\ \A a \in DOMAIN users :
                     a # last'.a1 => users'[a] = users[a]
         ELSE users' = users]_vars

(***************************************************************************)
(* Withdrawal and the deadline of the sale.                                *)
(***************************************************************************)
\* C17: withdraw moves tokens out only after the ICO has ended: no withdraw
\* moves an amount while the ledger time is at or before the stored
\* deadline.
WithdrawOnlyAfterDeadline ==
    [][(/\ Called("withdraw")
        /\ Has(icos, ZeroId)
        /\ now <= icos[ZeroId][3]) =>
           ~(last'.result = "Ok" /\ bal' # bal)]_vars

(***************************************************************************)
(* create_token on an owner whose record is stored.                        *)
(***************************************************************************)
\* C18: create_token called again for an owner that has a Token record
\* never fails with AlreadyInitialized: authorized by the owner and with a
\* supply s >= 0 it succeeds and replaces the stored record by a fresh one,
\* total_supply and the balance of the owner s, whatever was minted before;
\* no call returns AlreadyInitialized.
CreateTokenReplaces ==
    [][/\ last'.result # "AlreadyInitialized"
       /\ (Called("create_token") /\ Has(tokens, last'.a1)) =>
              LET owner == last'.a1
                  s == last'.x
              IN  IF owner \in last'.signers /\ s >= 0
                    THEN /\ last'.result = "Ok"
                         /\ tokens'[owner] =
                                [total_supply |-> s,
                                 balances |-> [a \in {owner} |-> s],
                                 owner |-> owner]
                    ELSE tokens' = tokens]_vars

\* the third call of a run was a successful create_token that left the only
\* record of the registry: among the runs that end here are create_token,
\* mint, create_token for one owner
CreateTokenReplacesWitness ==
    /\ last.op = "create_token"
    /\ last.result = "Ok"
    /\ calls = 3
    /\ Cardinality(DOMAIN tokens) = 1
    /\ tokens[last.a1].total_supply = 2

(***************************************************************************)
(* The guard of swap.                                                      *)
(***************************************************************************)
\* C19: a swap whose computed token_out equals token_reserve succeeds, it
\* is not rejected with InsufficientFunds; this can bring the token reserve
\* to zero, and while the token reserve of a pool is zero every swap on the
\* pool returns 0.
SwapMayEmptyPool ==
    [][\A s \in Symbols :
         Swapped(s) =>
             LET T == pools[s][s][1]
                 R == pools[s][s][2]
                 token_out == TokenOut(T, R, last'.x, overflow_checks)
             IN  /\ (IsVal(token_out) /\ Val(token_out) = T) =>
                        /\ last'.result = "Ok"
                        /\ pools'[s][s][1] = 0
                 /\ T = 0 => (last'.result = "Ok" /\ last'.ret = 0)]_vars

\* C20: on a pool whose state was reached only through add_liquidity calls
\* and swaps with a positive input, swap never returns InsufficientFunds
\* and the token reserve stays strictly positive.
PositiveSwapsKeepTokens ==
    [][\A s \in Symbols :
         Swapped(s) =>
             /\ last'.result # "InsufficientFunds"
             /\ pools'[s][s][1] > 0]_vars

====
